---- MODULE Spec2Model ----
(***************************************************************************)
(* Caffeine Chronicles: the video renderer (video_renderer.py).            *)
(*                                                                         *)
(* The renderer is modelled in separate specifications over one set of     *)
(* variables, one per component of render_video:                           *)
(*   SpecScene    the frame loop and the scene timeline (get_scene_info)   *)
(*   SpecSparkle  Sparkle.__init__ and Sparkle.get_pos                     *)
(*   SpecSeed     random.seed(episode) and the particle construction       *)
(*   SpecWrap     wrap_text                                                *)
(*   SpecRender   the scratch directory, the frame files and the encoder   *)
(* Times are exact rationals: a time in seconds is kept in frames          *)
(* (1/FPS s), an opacity is a fraction <<numerator, denominator>> in       *)
(* lowest terms.                                                           *)
(***************************************************************************)
EXTENDS Integers, Sequences, FiniteSets, TLC

\* ---------------------------------------------------------------- config.py
VIDEO_WIDTH == 1080
VIDEO_HEIGHT == 1920
FPS == 30
VIDEO_DURATION_SECONDS == 35

\* ------------------------------------------------------------------ bounds
\* SCENE_DURATION_SECONDS, FADE_DURATION_SECONDS and FACTS_PER_VIDEO are
\* imported by video_renderer.py but set nowhere in config.py: the model ranges
\* over the configurations 1..Max with 2*fade <= scene_duration.
MaxSceneDuration == 12
MaxFade == 2
MaxFacts == 3

\* random.uniform(a, b) is modelled on a grid: a + k * (b - a) / UniformSteps.
UniformSteps == 2

\* The process-wide generator of module random repeats its draws after
\* RngPeriod of them; MaxEpisode bounds the episode numbers rendered.
RngPeriod == 5
MaxEpisode == 2

\* Frames left in the scratch directory by an earlier, failed render.
MaxStale == 3

\* wrap_text: the longest caption and the largest max_width tried.
MaxTextLen == 6
MaxWidth == 4

\* Frames each of two concurrent renders composes.
MaxConcFrames == 2

\* The most lines a wrapped caption has.
MaxLines == 14

\* The largest episode counter content_generator finds stored.
MaxStoredEpisode == 7

\* The most chunks an uploaded file has.
MaxChunks == 4

VARIABLES
    config,         \* the imported scene configuration
    rendered,       \* SpecScene: number of frames the loop has rendered
    scene,          \* SpecScene: get_scene_info of the last rendered frame
    sparkle,        \* SpecSparkle: one constructed Sparkle
    drawn,          \* SpecSparkle: number of frames the sparkle was placed in
    pos,            \* SpecSparkle: get_pos of the last such frame
    rng,            \* SpecSeed: state of the process-wide random generator
    seed_pc,        \* SpecSeed: position of render_video in lines 336..345
    episode,        \* SpecSeed: episode_data["episode"] of the running render
    rng_before,     \* SpecSeed: generator state when the running render began
    sparkles,       \* SpecSeed: the render's Sparkle list
    beans,          \* SpecSeed: the render's CoffeeBean list
    ref,            \* SpecSeed: an earlier render kept for comparison
    text,           \* SpecWrap: the caption, a sequence of characters
    max_width,      \* SpecWrap: the width the lines must fit
    words,          \* SpecWrap: text.split()
    word_i,         \* SpecWrap: index of the next word of the loop
    lines,          \* SpecWrap: the committed lines
    current_line,   \* SpecWrap: the line being filled
    wrap_pc,        \* SpecWrap: "loop" or "done"
    render_pc,      \* SpecRender: position of render_video
    r_episode,      \* SpecRender: episode_data["episode"]
    dir_exists,     \* SpecRender: FRAMES_DIR exists
    dir_files,      \* SpecRender: names of the files in FRAMES_DIR
    f,              \* SpecRender: the frame loop's index
    img,            \* SpecRender: frame composited and not yet saved, or NoImg
    encoder_runs,   \* SpecRender: number of ffmpeg invocations
    encoder_saw,    \* SpecRender: the frame files present when ffmpeg ran
    output_files,   \* SpecRender: video files written to OUTPUT_DIR
    returned,       \* SpecRender: the path render_video returned, or NoPath
    error,          \* SpecRender: the call that raised, or "none"
    built,          \* SpecRender: the particle lists have been constructed
    composited,     \* SpecRender: number of render_frame calls made
    stale_start,    \* SpecRender: the render began with leftover frame files
    c_pc,           \* SpecConc: position of each render_video invocation
    c_episode,      \* SpecConc: episode_data["episode"] of each invocation
    c_f,            \* SpecConc: frame loop index of each invocation
    c_img,          \* SpecConc: frame composited and not yet saved, per invocation
    fs,             \* SpecConc: the scratch directories: existence and files with their writer
    c_saw,          \* SpecConc: the files each invocation's ffmpeg read
    harm,           \* SpecConc: what a render did to files of the other, running, render
    n_lines,        \* SpecLayout: len(lines) of the wrapped caption
    lay_pc,         \* SpecLayout: "wrap" before the placement, "draw" after it
    text_start_y,   \* SpecLayout: y of the first caption line
    line_i,         \* SpecLayout: index of the next line to draw
    ly,             \* SpecLayout: y of the line drawn last
    fr_episode,     \* SpecFrame: episode_data["episode"]
    fr_sparkles,    \* SpecFrame: the sparkles list passed to render_frame
    fr_beans,       \* SpecFrame: the beans list passed to render_frame
    bg_cache,       \* SpecFrame: render_video's bg_cache, NoBg for None
    bg_builds,      \* SpecFrame: number of times the background was built
    fr_f,           \* SpecFrame: the frame loop's index
    fr_img,         \* SpecFrame: the image render_frame returned last
    dry_run,        \* SpecPipeline: run_pipeline's dry_run argument
    skip_upload,    \* SpecPipeline: run_pipeline's skip_upload argument
    stored_episode, \* SpecPipeline: the episode counter content_generator loads
    pl_pc,          \* SpecPipeline: position of run_pipeline
    episode_data,   \* SpecPipeline: what content_generator.run returned
    video_path,     \* SpecPipeline: what video_renderer.run returned, or NoPath
    video_id,       \* SpecPipeline: what youtube_uploader.run returned
    steps,          \* SpecPipeline: the steps called so far, in order
    failed,         \* SpecPipeline: the step that raised, or "none"
    exit_status,    \* SpecPipeline: argument of sys.exit, or NoStatus
    chunks,         \* SpecUpload: number of chunks the media file has
    sent,           \* SpecUpload: chunks uploaded so far
    up_pc,          \* SpecUpload: "loop", "returned", or the exception raised
    retries,        \* SpecUpload: upload_video's retries counter
    response,       \* SpecUpload: upload_video's response
    errors,         \* SpecUpload: number of next_chunk calls that raised
    attempts,       \* SpecUpload: number of next_chunk calls
    waits,          \* SpecUpload: the arguments of time.sleep, in order
    up_video_id     \* SpecUpload: the id upload_video returned

sceneVars == <<config, rendered, scene>>
sparkleVars == <<sparkle, drawn, pos>>
seedVars == <<rng, seed_pc, episode, rng_before, sparkles, beans, ref>>
wrapVars == <<text, max_width, words, word_i, lines, current_line, wrap_pc>>
renderVars == <<render_pc, r_episode, dir_exists, dir_files, f, img,
                encoder_runs, encoder_saw, output_files, returned,
                error, built, composited, stale_start>>
concVars == <<c_pc, c_episode, c_f, c_img, fs, c_saw, harm>>
layoutVars == <<n_lines, lay_pc, text_start_y, line_i, ly>>
frameVars == <<fr_episode, fr_sparkles, fr_beans, bg_cache, bg_builds, fr_f, fr_img>>
pipelineVars == <<dry_run, skip_upload, stored_episode, pl_pc, episode_data, video_path, video_id, steps, failed, exit_status>>
uploadVars == <<chunks, sent, up_pc, retries, response, errors, attempts, waits, up_video_id>>
vars == <<sceneVars, sparkleVars, seedVars, wrapVars, renderVars, concVars, layoutVars,
          frameVars, pipelineVars, uploadVars>>
notScene == <<sparkleVars, seedVars, wrapVars, renderVars, concVars, layoutVars, frameVars,
              pipelineVars, uploadVars>>
notSparkle == <<sceneVars, seedVars, wrapVars, renderVars, concVars, layoutVars, frameVars,
                pipelineVars, uploadVars>>
notSeed == <<sceneVars, sparkleVars, wrapVars, renderVars, concVars, layoutVars, frameVars,
             pipelineVars, uploadVars>>
notWrap == <<sceneVars, sparkleVars, seedVars, renderVars, concVars, layoutVars, frameVars,
             pipelineVars, uploadVars>>
notRender == <<sceneVars, sparkleVars, seedVars, wrapVars, concVars, layoutVars, frameVars,
               pipelineVars, uploadVars>>
notConc == <<sceneVars, sparkleVars, seedVars, wrapVars, renderVars, layoutVars, frameVars,
             pipelineVars, uploadVars>>
notLayout == <<sceneVars, sparkleVars, seedVars, wrapVars, renderVars, concVars, frameVars,
               pipelineVars, uploadVars>>
notFrame == <<sceneVars, sparkleVars, seedVars, wrapVars, renderVars, concVars, layoutVars,
              pipelineVars, uploadVars>>
notPipeline == <<sceneVars, sparkleVars, seedVars, wrapVars, renderVars, concVars,
                 layoutVars, frameVars, uploadVars>>
notUpload == <<sceneVars, sparkleVars, seedVars, wrapVars, renderVars, concVars,
               layoutVars, frameVars, pipelineVars>>

\* ----------------------------------------------------------------- helpers
Min(a, b) == IF a <= b THEN a ELSE b
Max(a, b) == IF a >= b THEN a ELSE b
Abs(a) == IF a < 0 THEN -a ELSE a
Cube(a) == a * a * a

RECURSIVE GCD(_, _)
GCD(a, b) == IF b = 0 THEN a ELSE GCD(b, a % b)

\* The fraction n/d (d > 0) in lowest terms.
Frac(n, d) == LET g == GCD(Abs(n), d) IN <<n \div g, d \div g>>

\* ---------------------------------------------------------- configuration
Configs ==
    { c \in [SCENE_DURATION_SECONDS : 1..MaxSceneDuration,
             FADE_DURATION_SECONDS : 1..MaxFade,
             FACTS_PER_VIDEO : 1..MaxFacts] :
        2 * c.FADE_DURATION_SECONDS <= c.SCENE_DURATION_SECONDS }

\* render_video: total_frames = FPS * VIDEO_DURATION_SECONDS
total_frames == FPS * VIDEO_DURATION_SECONDS

\* ---------------------------------------------------------- scene timeline
\* (mutation of scene_idx_of: the clamp to the last scene is dropped)
SceneIdxClampDropped(frame_num) ==
    frame_num \div (FPS * config.SCENE_DURATION_SECONDS)

\* scene_idx = min(int(t / SCENE_DURATION_SECONDS), FACTS_PER_VIDEO - 1)
scene_idx_of(frame_num) ==
    Min(frame_num \div (FPS * config.SCENE_DURATION_SECONDS),
        config.FACTS_PER_VIDEO - 1)

\* scene_t = t - scene_idx * SCENE_DURATION_SECONDS, in frames
scene_t_of(frame_num) ==
    frame_num - scene_idx_of(frame_num) * config.SCENE_DURATION_SECONDS * FPS

\* (mutation of fade_out_ease: the fade-out reuses the ease-out curve)
FadeOutAsFadeIn(scene_t, fade, hold) ==
    Frac(Cube(fade) - Cube(fade - (scene_t - fade - hold)), Cube(fade))

\* progress = scene_t / fade; ease = 1 - (1 - progress) ** 3
fade_in_ease(scene_t, fade) ==
    Frac(Cube(fade) - Cube(fade - scene_t), Cube(fade))

\* progress = (scene_t - fade - hold) / fade; ease = 1 - progress ** 3
fade_out_ease(scene_t, fade, hold) ==
    Frac(Cube(fade) - Cube(scene_t - fade - hold), Cube(fade))

get_scene_info(frame_num) ==
    LET scene_idx == scene_idx_of(frame_num)
        scene_t == scene_t_of(frame_num)
        fade == config.FADE_DURATION_SECONDS * FPS
        hold == config.SCENE_DURATION_SECONDS * FPS - 2 * fade
    IN  IF scene_t < fade
        THEN LET ease == fade_in_ease(scene_t, fade)
             IN  [scene_idx |-> scene_idx, card_opacity |-> ease, text_opacity |-> ease]
        ELSE IF scene_t < fade + hold
        THEN [scene_idx |-> scene_idx, card_opacity |-> <<1, 1>>, text_opacity |-> <<1, 1>>]
        ELSE LET ease == fade_out_ease(scene_t, fade, hold)
             IN  [scene_idx |-> scene_idx, card_opacity |-> ease, text_opacity |-> ease]

NoScene == [scene_idx |-> 0, card_opacity |-> <<0, 1>>, text_opacity |-> <<0, 1>>]

SceneInit ==
    /\ config \in Configs
    /\ rendered = 0
    /\ scene = NoScene

\* The configuration as imported: no relation between the fade and the scene
\* duration is checked by config.py, by the import or by render_video.
AnyConfigs ==
    [SCENE_DURATION_SECONDS : 1..MaxSceneDuration,
     FADE_DURATION_SECONDS : 1..MaxFade,
     FACTS_PER_VIDEO : 1..MaxFacts]

ConfigInit ==
    /\ config \in AnyConfigs
    /\ rendered = 0
    /\ scene = NoScene

\* for f in range(total_frames): render_frame(f, ...) -> get_scene_info(f)
RenderFrame ==
    /\ rendered < total_frames
    /\ scene' = get_scene_info(rendered)
    /\ rendered' = rendered + 1
    /\ UNCHANGED <<config, notScene>>

SceneIdle ==
    /\ config = [SCENE_DURATION_SECONDS |-> 12, FADE_DURATION_SECONDS |-> 1,
                 FACTS_PER_VIDEO |-> 3]
    /\ rendered = 0
    /\ scene = NoScene

\* ------------------------------------------------------------------ Sparkle
\* A value of random.uniform(a, b), a and b in tenths, drawn at grid point k:
\* the numerator of a + k * (b - a) / UniformSteps over 10 * UniformSteps.
uniform_num(a10, b10, k) == a10 * UniformSteps + k * (b10 - a10)
UniformDen == 10 * UniformSteps

\* The integer positions the model draws of random.randint(0, hi): both ends
\* and their neighbours.
EdgeSamples(hi) == {0, 1, hi - 1, hi}

\* Sparkle.__init__: every field a draw of the generator. phase is kept as its
\* grid point (a fraction k / UniformSteps of 2 * pi).
SparkleRange ==
    [x : EdgeSamples(VIDEO_WIDTH),            \* random.randint(0, VIDEO_WIDTH)
     y : EdgeSamples(VIDEO_HEIGHT),           \* random.randint(0, VIDEO_HEIGHT)
     size : {uniform_num(20, 60, 0)},         \* random.uniform(2, 6)
     phase : {0},                             \* random.uniform(0, 2 * math.pi)
     speed : {uniform_num(15, 40, 0)},        \* random.uniform(1.5, 4.0)
     drift_x : {uniform_num(-3, 3, k) : k \in 0..UniformSteps},
     drift_y : {uniform_num(-8, -2, k) : k \in 0..UniformSteps},
     brightness : {180}]                      \* random.randint(180, 255)

\* (mutation of float_mod: the remainder takes the sign of the dividend)
TruncatedRemainder(a, b) == IF a >= 0 THEN a % b ELSE -((-a) % b)

\* Python's a % b for b > 0: the result has the sign of the divisor.
float_mod(a, b) == a % b

\* Sparkle.get_pos: t = frame / FPS; x = (self.x + self.drift_x * t * 30) %
\* VIDEO_WIDTH, likewise y; each coordinate a fraction in lowest terms.
PosDen == UniformDen * FPS
get_pos(s, frame) ==
    <<Frac(float_mod(s.x * PosDen + s.drift_x * frame * 30, VIDEO_WIDTH * PosDen), PosDen),
      Frac(float_mod(s.y * PosDen + s.drift_y * frame * 30, VIDEO_HEIGHT * PosDen), PosDen)>>

NoPos == <<<<0, 1>>, <<0, 1>>>>

SparkleInit ==
    /\ sparkle \in SparkleRange
    /\ drawn = 0
    /\ pos = NoPos

SparkleIdle ==
    /\ sparkle = [x |-> 0, y |-> 0, size |-> uniform_num(20, 60, 0), phase |-> 0,
                  speed |-> uniform_num(15, 40, 0), drift_x |-> uniform_num(-3, 3, 0),
                  drift_y |-> uniform_num(-8, -2, 0), brightness |-> 180]
    /\ drawn = 0
    /\ pos = NoPos

\* draw_sparkle(sparkle_draw, s, frame_num) for frame_num in range(total_frames)
SparkleGetPos ==
    /\ drawn < total_frames
    /\ pos' = get_pos(sparkle, drawn)
    /\ drawn' = drawn + 1
    /\ UNCHANGED <<sparkle, notSparkle>>

\* ------------------------------------------- seeding and particle construction
\* The generator's state is the seed it was last given and the number of draws
\* made since; the draws are a fixed function of the two. Seed 0 stands for
\* the seed the interpreter takes from the system at start-up.
advance(state, n) == [seed |-> state.seed, at |-> (state.at + n) % RngPeriod]

\* The n-th next draw of the generator in state `state` (n >= 1).
draw(state, n) ==
    LET k == (state.at + n) % RngPeriod
    IN  (state.seed * 7919 + k * 104729 + state.seed * k * 31) % 65521

randint(a, b, out) == a + (out % (b - a + 1))
uniform_at(a10, b10, out) == uniform_num(a10, b10, out % (UniformSteps + 1))

\* (mutation of random_seed: the generator is left as it was)
SeedSkipped(state, ep) == state

\* random.seed(episode): the new state depends on the episode number alone.
random_seed(state, ep) == [seed |-> ep, at |-> 0]

\* Sparkle(): eight draws, in the order of __init__.
SparkleDraws == 8
Sparkle(s) ==
    [x |-> randint(0, VIDEO_WIDTH, draw(s, 1)),
     y |-> randint(0, VIDEO_HEIGHT, draw(s, 2)),
     size |-> uniform_at(20, 60, draw(s, 3)),
     phase |-> draw(s, 4) % (UniformSteps + 1),
     speed |-> uniform_at(15, 40, draw(s, 5)),
     drift_x |-> uniform_at(-3, 3, draw(s, 6)),
     drift_y |-> uniform_at(-8, -2, draw(s, 7)),
     brightness |-> randint(180, 255, draw(s, 8))]

\* CoffeeBean(): six draws, in the order of __init__; shade 0 is BEAN_COLOR,
\* shade 1 BEAN_COLOR_LIGHT; angle is kept as its grid point.
BeanDraws == 6
CoffeeBean(s) ==
    [x |-> randint(-20, VIDEO_WIDTH + 20, draw(s, 1)),
     y |-> randint(-20, VIDEO_HEIGHT + 20, draw(s, 2)),
     size |-> uniform_at(180, 400, draw(s, 3)),
     angle |-> draw(s, 4) % (UniformSteps + 1),
     shade |-> draw(s, 5) % 2,
     opacity |-> randint(25, 55, draw(s, 6))]

NUM_SPARKLES == 60
NUM_BEANS == 35

\* [Sparkle() for _ in range(n)], the generator starting in state s
make_sparkles(s, n) == [i \in 1..n |-> Sparkle(advance(s, SparkleDraws * (i - 1)))]

\* [CoffeeBean() for _ in range(n)]
make_beans(s, n) == [i \in 1..n |-> CoffeeBean(advance(s, BeanDraws * (i - 1)))]

RngStates == [seed : 0..MaxEpisode, at : 0..(RngPeriod - 1)]
Episodes == 1..MaxEpisode
NoRng == [seed |-> 0, at |-> 0]
NoRef == [episode |-> 0, before |-> NoRng, sparkles |-> <<>>, beans |-> <<>>]

SeedInit ==
    /\ rng \in RngStates
    /\ seed_pc = "idle"
    /\ episode = 0
    /\ rng_before = NoRng
    /\ sparkles = <<>>
    /\ beans = <<>>
    /\ ref = NoRef

SeedIdle ==
    /\ rng = NoRng
    /\ seed_pc = "idle"
    /\ episode = 0
    /\ rng_before = NoRng
    /\ sparkles = <<>>
    /\ beans = <<>>
    /\ ref = NoRef

\* Any other use of the process-wide generator between two renders.
ConsumeRandom ==
    /\ seed_pc = "idle"
    /\ rng' = advance(rng, 1)
    /\ UNCHANGED <<seed_pc, episode, rng_before, sparkles, beans, ref>>
    /\ UNCHANGED notSeed

\* render_video(episode_data): episode = episode_data["episode"]
RenderStart(ep) ==
    /\ seed_pc = "idle"
    /\ seed_pc' = "start"
    /\ episode' = ep
    /\ rng_before' = rng
    /\ UNCHANGED <<rng, sparkles, beans, ref>>
    /\ UNCHANGED notSeed

\* random.seed(episode)
SeedRandom ==
    /\ seed_pc = "start"
    /\ rng' = random_seed(rng, episode)
    /\ seed_pc' = "seeded"
    /\ UNCHANGED <<episode, rng_before, sparkles, beans, ref>>
    /\ UNCHANGED notSeed

\* sparkles = [Sparkle() for _ in range(60)]
\* beans = [CoffeeBean() for _ in range(35)]
\* The render may be kept as the reference a later render is compared with.
BuildParticles ==
    /\ seed_pc = "seeded"
    /\ sparkles' = make_sparkles(rng, NUM_SPARKLES)
    /\ beans' = make_beans(advance(rng, NUM_SPARKLES * SparkleDraws), NUM_BEANS)
    /\ rng' = advance(rng, NUM_SPARKLES * SparkleDraws + NUM_BEANS * BeanDraws)
    /\ seed_pc' = "built"
    /\ \E keep \in BOOLEAN :
          ref' = IF keep /\ ref = NoRef
                 THEN [episode |-> episode, before |-> rng_before,
                       sparkles |-> sparkles', beans |-> beans']
                 ELSE ref
    /\ UNCHANGED <<episode, rng_before>>
    /\ UNCHANGED notSeed

\* render_video returns: its particle lists are dropped.
RenderReturn ==
    /\ seed_pc = "built"
    /\ seed_pc' = "idle"
    /\ sparkles' = <<>>
    /\ beans' = <<>>
    /\ UNCHANGED <<rng, episode, rng_before, ref>>
    /\ UNCHANGED notSeed

\* ---------------------------------------------------------------- wrap_text
\* MaxTextLen bounds the caption, MaxWidth the widths tried.
Alphabet == {"a", "W", " ", "\t"}
Texts == UNION { [1..n -> Alphabet] : n \in 0..MaxTextLen }

IsSpace(c) == c \in {" ", "\t"}

\* str.split(): the maximal runs of non-whitespace characters, in order.
RECURSIVE split_from(_, _, _, _)
split_from(t, i, word, acc) ==
    IF i > Len(t)
    THEN IF word = <<>> THEN acc ELSE Append(acc, word)
    ELSE IF IsSpace(t[i])
    THEN split_from(t, i + 1, <<>>, IF word = <<>> THEN acc ELSE Append(acc, word))
    ELSE split_from(t, i + 1, Append(word, t[i]), acc)
split(t) == split_from(t, 1, <<>>, <<>>)

\* str.strip(): leading and trailing whitespace removed.
RECURSIVE lstrip(_)
lstrip(t) == IF t # <<>> /\ IsSpace(Head(t)) THEN lstrip(Tail(t)) ELSE t
RECURSIVE rstrip(_)
rstrip(t) ==
    IF t # <<>> /\ IsSpace(t[Len(t)]) THEN rstrip(SubSeq(t, 1, Len(t) - 1)) ELSE t
strip(t) == rstrip(lstrip(t))

\* font.getbbox(s): bbox[2] - bbox[0], the advances of the characters added up
\* ("W" is twice as wide as "a" and the space).
char_width(c) == IF c = "W" THEN 2 ELSE 1
RECURSIVE text_width(_)
text_width(t) == IF t = <<>> THEN 0 ELSE char_width(Head(t)) + text_width(Tail(t))

\* (mutation of fits: one unit past max_width is accepted)
FitsOffByOne(w, width) == w <= width + 1

\* if w <= max_width
fits(w, width) == w <= width

\* (mutation of final_lines: the trailing partial line is not committed)
TrailingLineDropped(ls, cur) == ls

\* if current_line: lines.append(current_line); return lines
final_lines(ls, cur) == IF cur # <<>> THEN Append(ls, cur) ELSE ls

WrapInit ==
    /\ text \in Texts
    /\ max_width \in 1..MaxWidth
    /\ words = split(text)
    /\ word_i = 1
    /\ lines = <<>>
    /\ current_line = <<>>
    /\ wrap_pc = "loop"

WrapIdle ==
    /\ text = <<>>
    /\ max_width = 1
    /\ words = <<>>
    /\ word_i = 1
    /\ lines = <<>>
    /\ current_line = <<>>
    /\ wrap_pc = "done"

\* One iteration of `for word in words`.
WrapWord ==
    /\ wrap_pc = "loop"
    /\ word_i <= Len(words)
    /\ LET word == words[word_i]
           test == strip(current_line \o <<" ">> \o word)
           w == text_width(test)
       IN  IF fits(w, max_width)
           THEN /\ current_line' = test
                /\ UNCHANGED lines
           ELSE /\ lines' = IF current_line # <<>> THEN Append(lines, current_line) ELSE lines
                /\ current_line' = word
    /\ word_i' = word_i + 1
    /\ UNCHANGED <<text, max_width, words, wrap_pc>>
    /\ UNCHANGED notWrap

\* After the loop: the trailing line is committed and the lines returned.
WrapReturn ==
    /\ wrap_pc = "loop"
    /\ word_i > Len(words)
    /\ lines' = final_lines(lines, current_line)
    /\ wrap_pc' = "done"
    /\ UNCHANGED <<text, max_width, words, word_i, current_line>>
    /\ UNCHANGED notWrap

\* ------------------------------------------------------------- render_video
\* The decimal digits of n, most significant first.
RECURSIVE digits(_)
digits(n) == IF n < 10 THEN <<n>> ELSE Append(digits(n \div 10), n % 10)

\* format(n, "0<width>d"): zeros are put in front up to `width` digits; a
\* longer number is left as it is.
RECURSIVE zero_pad(_, _)
zero_pad(ds, width) == IF Len(ds) >= width THEN ds ELSE zero_pad(<<0>> \o ds, width)

\* (mutation of frame_name: the index is written without padding)
FrameNameUnpadded(n) == digits(n)

\* f"frame_{f:05d}.png": the name is kept as its digits.
frame_name(n) == zero_pad(digits(n), 5)

\* f"episode_{episode:04d}.mp4", kept as its digits.
output_name(ep) == zero_pad(digits(ep), 4)

NoImg == -1
NoPath == <<>>

\* A scratch directory left by an earlier render that failed after `n` frames.
StaleDirs == { [exists |-> FALSE, files |-> {}] }
                \cup { [exists |-> TRUE, files |-> { frame_name(i) : i \in 0..(n - 1) }] :
                        n \in {0, MaxStale, total_frames} }

RenderInit ==
    /\ render_pc = "clear"
    /\ r_episode \in Episodes
    /\ \E d \in StaleDirs :
          dir_exists = d.exists /\ dir_files = d.files /\ stale_start = (d.files # {})
    /\ f = 0
    /\ img = NoImg
    /\ encoder_runs = 0
    /\ encoder_saw = {}
    /\ output_files = {}
    /\ returned = NoPath
    /\ error = "none"
    /\ built = FALSE
    /\ composited = 0

RenderIdle ==
    /\ render_pc = "clear"
    /\ r_episode = 1
    /\ dir_exists = FALSE
    /\ dir_files = {}
    /\ stale_start = FALSE
    /\ f = 0
    /\ img = NoImg
    /\ encoder_runs = 0
    /\ encoder_saw = {}
    /\ output_files = {}
    /\ returned = NoPath
    /\ error = "none"
    /\ built = FALSE
    /\ composited = 0

\* if FRAMES_DIR.exists(): shutil.rmtree(FRAMES_DIR)
ClearScratch ==
    /\ render_pc = "clear"
    /\ render_pc' = "mkdir"
    /\ dir_exists' = FALSE
    /\ dir_files' = {}
    /\ UNCHANGED <<r_episode, f, img, encoder_runs, encoder_saw, output_files, returned>>
    /\ UNCHANGED <<error, built, composited, stale_start>>
    /\ UNCHANGED notRender

\* shutil.rmtree raises (the directory cannot be removed).
ClearScratchFails ==
    /\ render_pc = "clear"
    /\ dir_exists
    /\ render_pc' = "raised"
    /\ UNCHANGED <<r_episode, dir_exists, dir_files, f, img, encoder_runs, encoder_saw,
                   output_files, returned>>
    /\ error' = "rmtree"
    /\ UNCHANGED <<built, composited, stale_start>>
    /\ UNCHANGED notRender

\* FRAMES_DIR.mkdir(parents=True)
MakeScratch ==
    /\ render_pc = "mkdir"
    /\ ~dir_exists
    /\ render_pc' = "seed"
    /\ dir_exists' = TRUE
    /\ dir_files' = {}
    /\ UNCHANGED <<r_episode, f, img, encoder_runs, encoder_saw, output_files, returned>>
    /\ UNCHANGED <<error, built, composited, stale_start>>
    /\ UNCHANGED notRender

\* FRAMES_DIR.mkdir raises (permission denied, ...).
MakeScratchFails ==
    /\ render_pc = "mkdir"
    /\ render_pc' = "raised"
    /\ UNCHANGED <<r_episode, dir_exists, dir_files, f, img, encoder_runs, encoder_saw,
                   output_files, returned>>
    /\ error' = "mkdir"
    /\ UNCHANGED <<built, composited, stale_start>>
    /\ UNCHANGED notRender

\* random.seed(episode); sparkles = [...]; beans = [...]; bg_cache = None
\* (the particles themselves are followed in SpecSeed)
SeedAndBuild ==
    /\ render_pc = "seed"
    /\ render_pc' = "frames"
    /\ f' = 0
    /\ UNCHANGED <<r_episode, dir_exists, dir_files, img, encoder_runs, encoder_saw,
                   output_files, returned>>
    /\ built' = TRUE
    /\ UNCHANGED <<error, composited, stale_start>>
    /\ UNCHANGED notRender

\* img, bg_cache = render_frame(f, ...)
CompositeFrame ==
    /\ render_pc = "frames"
    /\ f < total_frames
    /\ img = NoImg
    /\ img' = f
    /\ UNCHANGED <<render_pc, r_episode, dir_exists, dir_files, f, encoder_runs,
                   encoder_saw, output_files, returned>>
    /\ composited' = composited + 1
    /\ UNCHANGED <<error, built, stale_start>>
    /\ UNCHANGED notRender

\* img.save(FRAMES_DIR / f"frame_{f:05d}.png"), and the loop goes on
SaveFrame ==
    /\ render_pc = "frames"
    /\ img # NoImg
    /\ dir_exists
    /\ dir_files' = dir_files \cup {frame_name(f)}
    /\ img' = NoImg
    /\ f' = f + 1
    /\ UNCHANGED <<render_pc, r_episode, dir_exists, encoder_runs, encoder_saw,
                   output_files, returned>>
    /\ UNCHANGED <<error, built, composited, stale_start>>
    /\ UNCHANGED notRender

\* (mutation of SaveFrameFails: the write error is swallowed and the loop goes on)
SaveFailureSwallowed ==
    /\ render_pc = "frames"
    /\ img # NoImg
    /\ f' = f + 1
    /\ img' = NoImg
    /\ error' = "save"
    /\ UNCHANGED <<render_pc, r_episode, dir_exists, dir_files, encoder_runs, encoder_saw,
                   output_files, returned>>
    /\ UNCHANGED <<built, composited, stale_start>>
    /\ UNCHANGED notRender

\* img.save raises (disk full, ...).
SaveFrameFails ==
    /\ render_pc = "frames"
    /\ img # NoImg
    /\ render_pc' = "raised"
    /\ img' = NoImg
    /\ UNCHANGED <<r_episode, dir_exists, dir_files, f, encoder_runs, encoder_saw,
                   output_files, returned>>
    /\ error' = "save"
    /\ UNCHANGED <<built, composited, stale_start>>
    /\ UNCHANGED notRender

\* (mutation of RunEncoder: check=False, the exit status is ignored)
RunEncoderUnchecked(status) ==
    /\ render_pc = "frames"
    /\ f = total_frames
    /\ img = NoImg
    /\ encoder_runs' = encoder_runs + 1
    /\ encoder_saw' = dir_files
    /\ output_files' = IF status = 0 THEN output_files \cup {output_name(r_episode)}
                                     ELSE output_files
    /\ render_pc' = "cleanup"
    /\ error' = IF status = 0 THEN error ELSE "encoder"
    /\ UNCHANGED <<r_episode, dir_exists, dir_files, f, img, returned>>
    /\ UNCHANGED <<built, composited, stale_start>>
    /\ UNCHANGED notRender

\* subprocess.run(ffmpeg_cmd, check=True, capture_output=True): ffmpeg reads
\* frame_%05d.png from FRAMES_DIR and, exiting with status 0, has written
\* output_file; a non-zero status raises CalledProcessError.
RunEncoder(status) ==
    /\ render_pc = "frames"
    /\ f = total_frames
    /\ img = NoImg
    /\ encoder_runs' = encoder_runs + 1
    /\ encoder_saw' = dir_files
    /\ IF status = 0
       THEN /\ output_files' = output_files \cup {output_name(r_episode)}
            /\ render_pc' = "cleanup"
       ELSE /\ UNCHANGED output_files
            /\ render_pc' = "raised"
    /\ UNCHANGED <<r_episode, dir_exists, dir_files, f, img, returned>>
    /\ error' = IF status = 0 THEN error ELSE "encoder"
    /\ UNCHANGED <<built, composited, stale_start>>
    /\ UNCHANGED notRender

\* (mutation of CleanupAndReturn: the final rmtree is left out)
ReturnWithoutCleanup ==
    /\ render_pc = "cleanup"
    /\ returned' = output_name(r_episode)
    /\ render_pc' = "returned"
    /\ UNCHANGED <<r_episode, dir_exists, dir_files, f, img, encoder_runs, encoder_saw,
                   output_files>>
    /\ UNCHANGED <<error, built, composited, stale_start>>
    /\ UNCHANGED notRender

\* shutil.rmtree(FRAMES_DIR); return output_file
CleanupAndReturn ==
    /\ render_pc = "cleanup"
    /\ dir_exists' = FALSE
    /\ dir_files' = {}
    /\ returned' = output_name(r_episode)
    /\ render_pc' = "returned"
    /\ UNCHANGED <<r_episode, f, img, encoder_runs, encoder_saw, output_files>>
    /\ UNCHANGED <<error, built, composited, stale_start>>
    /\ UNCHANGED notRender

\* The final shutil.rmtree raises.
CleanupFails ==
    /\ render_pc = "cleanup"
    /\ render_pc' = "raised"
    /\ UNCHANGED <<r_episode, dir_exists, dir_files, f, img, encoder_runs, encoder_saw,
                   output_files, returned>>
    /\ error' = "cleanup"
    /\ UNCHANGED <<built, composited, stale_start>>
    /\ UNCHANGED notRender


\* ------------------------------------------------ render_video, run twice at once
\* Two invocations of render_video whose steps interleave.
Procs == {1, 2}

\* FRAMES_DIR = OUTPUT_DIR / "_frames": one path for every render.
FRAMES_DIR == "output/_frames"

\* The scratch directory render_video uses for episode `ep`.
scratch_dir(ep) == FRAMES_DIR

ScratchDirs == { scratch_dir(ep) : ep \in Episodes }

\* The frame loop, cut to its first MaxConcFrames iterations.
conc_frames == Min(total_frames, MaxConcFrames)

Live(p) == c_pc[p] \notin {"returned", "raised"}

\* The files of directory `d` written by a render other than `p` that is
\* still running.
Foreign(p, d) == { e \in fs[d].files : e.writer # p /\ Live(e.writer) }

\* ffmpeg -i frame_%05d.png reads frame 0, 1, ... up to the first missing index.
EncoderReads(d) ==
    LET names == { e.name : e \in fs[d].files }
    IN  { e \in fs[d].files :
            \E i \in 0..(conc_frames - 1) :
                /\ e.name = frame_name(i)
                /\ \A j \in 0..i : frame_name(j) \in names }

ConcInit ==
    /\ c_pc = [p \in Procs |-> "clear"]
    /\ c_episode \in [Procs -> Episodes]
    /\ c_f = [p \in Procs |-> 0]
    /\ c_img = [p \in Procs |-> NoImg]
    /\ \E ex \in BOOLEAN : fs = [d \in ScratchDirs |-> [exists |-> ex, files |-> {}]]
    /\ c_saw = [p \in Procs |-> {}]
    /\ harm = {}

ConcIdle ==
    /\ c_pc = [p \in Procs |-> "clear"]
    /\ c_episode = [p \in Procs |-> 1]
    /\ c_f = [p \in Procs |-> 0]
    /\ c_img = [p \in Procs |-> NoImg]
    /\ fs = [d \in ScratchDirs |-> [exists |-> FALSE, files |-> {}]]
    /\ c_saw = [p \in Procs |-> {}]
    /\ harm = {}

\* if FRAMES_DIR.exists(): shutil.rmtree(FRAMES_DIR)
ConcClear(p) ==
    LET d == scratch_dir(c_episode[p])
    IN  /\ c_pc[p] = "clear"
        /\ IF fs[d].exists
           THEN /\ fs' = [fs EXCEPT ![d] = [exists |-> FALSE, files |-> {}]]
                /\ harm' = harm \cup (IF Foreign(p, d) # {} THEN {"deleted"} ELSE {})
           ELSE UNCHANGED <<fs, harm>>
        /\ c_pc' = [c_pc EXCEPT ![p] = "mkdir"]
        /\ UNCHANGED <<c_episode, c_f, c_img, c_saw>>
        /\ UNCHANGED notConc

\* FRAMES_DIR.mkdir(parents=True): FileExistsError when the directory is there.
ConcMkdir(p) ==
    LET d == scratch_dir(c_episode[p])
    IN  /\ c_pc[p] = "mkdir"
        /\ IF fs[d].exists
           THEN /\ c_pc' = [c_pc EXCEPT ![p] = "raised"]
                /\ UNCHANGED fs
           ELSE /\ c_pc' = [c_pc EXCEPT ![p] = "frames"]
                /\ fs' = [fs EXCEPT ![d].exists = TRUE]
        /\ UNCHANGED <<c_episode, c_f, c_img, c_saw, harm>>
        /\ UNCHANGED notConc

\* img, bg_cache = render_frame(f, ...)
ConcComposite(p) ==
    /\ c_pc[p] = "frames"
    /\ c_f[p] < conc_frames
    /\ c_img[p] = NoImg
    /\ c_img' = [c_img EXCEPT ![p] = c_f[p]]
    /\ UNCHANGED <<c_pc, c_episode, c_f, fs, c_saw, harm>>
    /\ UNCHANGED notConc

\* img.save(FRAMES_DIR / f"frame_{f:05d}.png"): FileNotFoundError when the
\* directory is gone, else the file is created or replaced.
ConcSave(p) ==
    LET d == scratch_dir(c_episode[p])
        name == frame_name(c_f[p])
    IN  /\ c_pc[p] = "frames"
        /\ c_img[p] # NoImg
        /\ c_img' = [c_img EXCEPT ![p] = NoImg]
        /\ IF fs[d].exists
           THEN /\ fs' = [fs EXCEPT ![d].files =
                            { e \in @ : e.name # name } \cup {[name |-> name, writer |-> p]}]
                /\ harm' = harm \cup (IF \E e \in Foreign(p, d) : e.name = name
                                        THEN {"overwritten"} ELSE {})
                /\ c_f' = [c_f EXCEPT ![p] = @ + 1]
                /\ UNCHANGED c_pc
           ELSE /\ c_pc' = [c_pc EXCEPT ![p] = "raised"]
                /\ UNCHANGED <<fs, harm, c_f>>
        /\ UNCHANGED <<c_episode, c_saw>>
        /\ UNCHANGED notConc

\* subprocess.run(ffmpeg_cmd, check=True, ...): with no frame 0 to read ffmpeg
\* exits non-zero.
ConcEncode(p) ==
    LET d == scratch_dir(c_episode[p])
    IN  /\ c_pc[p] = "frames"
        /\ c_f[p] = conc_frames
        /\ c_img[p] = NoImg
        /\ IF EncoderReads(d) # {}
           THEN /\ c_saw' = [c_saw EXCEPT ![p] = EncoderReads(d)]
                /\ harm' = harm \cup (IF EncoderReads(d) \cap Foreign(p, d) # {}
                                        THEN {"fed"} ELSE {})
                /\ c_pc' = [c_pc EXCEPT ![p] = "cleanup"]
           ELSE /\ c_pc' = [c_pc EXCEPT ![p] = "raised"]
                /\ UNCHANGED <<c_saw, harm>>
        /\ UNCHANGED <<c_episode, c_f, c_img, fs>>
        /\ UNCHANGED notConc

\* shutil.rmtree(FRAMES_DIR): FileNotFoundError when the directory is gone.
ConcCleanup(p) ==
    LET d == scratch_dir(c_episode[p])
    IN  /\ c_pc[p] = "cleanup"
        /\ IF fs[d].exists
           THEN /\ fs' = [fs EXCEPT ![d] = [exists |-> FALSE, files |-> {}]]
                /\ harm' = harm \cup (IF Foreign(p, d) # {} THEN {"deleted"} ELSE {})
                /\ c_pc' = [c_pc EXCEPT ![p] = "returned"]
           ELSE /\ c_pc' = [c_pc EXCEPT ![p] = "raised"]
                /\ UNCHANGED <<fs, harm>>
        /\ UNCHANGED <<c_episode, c_f, c_img, c_saw>>
        /\ UNCHANGED notConc


\* ------------------------------------------- render_frame: caption placement
card_margin == 80
card_w == VIDEO_WIDTH - card_margin * 2
card_h == 900
card_x == card_margin
card_y == (VIDEO_HEIGHT - card_h) \div 2 + 40
line_height == 54

\* current_y when the fact text is placed: card_y + 60, then the dots (+= 50),
\* the divider (+= 40) and the header (+= 90).
fact_y == card_y + 60 + 50 + 40 + 90

\* text_start_y for a caption that wrap_text returned as `n` lines.
text_start(n) ==
    LET total_text_h == n * line_height
        remaining_h == card_h - (fact_y - card_y) - 80
    IN  fact_y + Max(0, (remaining_h - total_text_h) \div 2)

NoY == -1

LayoutInit ==
    /\ n_lines \in 0..MaxLines
    /\ lay_pc = "wrap"
    /\ text_start_y = NoY
    /\ line_i = 0
    /\ ly = NoY

LayoutIdle ==
    /\ n_lines = 0
    /\ lay_pc = "wrap"
    /\ text_start_y = NoY
    /\ line_i = 0
    /\ ly = NoY

\* lines = wrap_text(...); ...; text_start_y = current_y + max(0, ...)
PlaceCaption ==
    /\ lay_pc = "wrap"
    /\ text_start_y' = text_start(n_lines)
    /\ lay_pc' = "draw"
    /\ UNCHANGED <<n_lines, line_i, ly>>
    /\ UNCHANGED notLayout

\* for i, line in enumerate(lines): ly = text_start_y + i * line_height
DrawLine ==
    /\ lay_pc = "draw"
    /\ line_i < n_lines
    /\ ly' = text_start_y + line_i * line_height
    /\ line_i' = line_i + 1
    /\ UNCHANGED <<n_lines, lay_pc, text_start_y>>
    /\ UNCHANGED notLayout


\* -------------------------------------------- render_frame: background cache
\* An image is the sequence of the shapes painted on it, each <<kind, <<a, b>>>>
\* with a and b fractions.
NoBg == <<>>

\* Image.new(..., BG_COLOR + (255,)); for bean in beans: bean.draw(..., bg_cache)
Background(bs) ==
    <<<<"fill", <<<<0, 1>>, <<0, 1>>>>>>>>
        \o [i \in 1..Len(bs) |-> <<"bean", <<<<bs[i].x, 1>>, <<bs[i].y, 1>>>>>>]

\* What render_frame composites over the background: the sparkles at their
\* place in frame `frame_num`, then the card and the text of the scene.
Overlay(frame_num, sps) ==
    LET sc == get_scene_info(frame_num)
    IN  [i \in 1..Len(sps) |-> <<"sparkle", get_pos(sps[i], frame_num)>>]
            \o <<<<"card", <<sc.card_opacity, sc.text_opacity>>>>,
                 <<"text", <<<<sc.scene_idx, 1>>, <<0, 1>>>>>>>>

\* (mutation of render_frame: the layers are composited onto bg_cache itself)
CopySkipped(frame_num, sps, bs, cache) ==
    LET bg == IF cache = NoBg THEN Background(bs) ELSE cache
    IN  [img |-> bg \o Overlay(frame_num, sps),
         bg_cache |-> bg \o Overlay(frame_num, sps)]

\* render_frame(frame_num, total_frames, episode_data, sparkles, beans, bg_cache)
\* returns (img, bg_cache); img starts as bg_cache.copy().
render_frame(frame_num, sps, bs, cache) ==
    LET bg == IF cache = NoBg THEN Background(bs) ELSE cache
    IN  [img |-> bg \o Overlay(frame_num, sps), bg_cache |-> bg]

\* The particle lists render_video builds for episode `ep`.
sparkles_of(ep) == make_sparkles(random_seed(NoRng, ep), NUM_SPARKLES)
beans_of(ep) ==
    make_beans(advance(random_seed(NoRng, ep), NUM_SPARKLES * SparkleDraws), NUM_BEANS)

FrameInit ==
    /\ fr_episode \in Episodes
    /\ fr_sparkles = sparkles_of(fr_episode)
    /\ fr_beans = beans_of(fr_episode)
    /\ bg_cache = NoBg
    /\ bg_builds = 0
    /\ fr_f = 0
    /\ fr_img = NoBg

FrameIdle ==
    /\ fr_episode = 0
    /\ fr_sparkles = <<>>
    /\ fr_beans = <<>>
    /\ bg_cache = NoBg
    /\ bg_builds = 0
    /\ fr_f = 0
    /\ fr_img = NoBg

\* for f in range(total_frames):
\*     img, bg_cache = render_frame(f, total_frames, episode_data, sparkles, beans, bg_cache)
FrameStep ==
    /\ fr_f < total_frames
    /\ LET r == render_frame(fr_f, fr_sparkles, fr_beans, bg_cache)
       IN  /\ fr_img' = r.img
           /\ bg_cache' = r.bg_cache
    /\ bg_builds' = IF bg_cache = NoBg THEN bg_builds + 1 ELSE bg_builds
    /\ fr_f' = fr_f + 1
    /\ UNCHANGED <<fr_episode, fr_sparkles, fr_beans>>
    /\ UNCHANGED notFrame


\* ------------------------------------------------------------- run_pipeline
CONTENT_ROTATION ==
    <<"fact", "fact", "myth_buster", "fact", "comparison", "fact", "coffee_shop">>

\* content_generator.run(): the stored episode counter plus one, and the
\* content type of that episode in the rotation.
episode_data_of(stored) ==
    LET ep == stored + 1
    IN  [episode |-> ep, type |-> CONTENT_ROTATION[((ep - 1) % Len(CONTENT_ROTATION)) + 1]]

NoData == [episode |-> 0, type |-> ""]
NoStatus == -1
NoVideoId == ""

PipelineInit ==
    /\ dry_run \in BOOLEAN
    /\ skip_upload \in BOOLEAN
    /\ stored_episode \in 0..MaxStoredEpisode
    /\ pl_pc = "start"
    /\ episode_data = NoData
    /\ video_path = NoPath
    /\ video_id = NoVideoId
    /\ steps = <<>>
    /\ failed = "none"
    /\ exit_status = NoStatus

PipelineIdle ==
    /\ dry_run = FALSE
    /\ skip_upload = FALSE
    /\ stored_episode = 0
    /\ pl_pc = "start"
    /\ episode_data = NoData
    /\ video_path = NoPath
    /\ video_id = NoVideoId
    /\ steps = <<>>
    /\ failed = "none"
    /\ exit_status = NoStatus

\* episode_data = content_generator.run()
Generate ==
    /\ pl_pc = "start"
    /\ steps' = Append(steps, "generate")
    /\ episode_data' = episode_data_of(stored_episode)
    /\ pl_pc' = "generated"
    /\ UNCHANGED <<dry_run, skip_upload, stored_episode, video_path, video_id, failed,
                   exit_status>>
    /\ UNCHANGED notPipeline

\* content_generator.run() raises: sys.exit(1)
GenerateFails ==
    /\ pl_pc = "start"
    /\ steps' = Append(steps, "generate")
    /\ failed' = "generate"
    /\ exit_status' = 1
    /\ pl_pc' = "exited"
    /\ UNCHANGED <<dry_run, skip_upload, stored_episode, episode_data, video_path, video_id>>
    /\ UNCHANGED notPipeline

\* if dry_run: ...; return
DryRunReturn ==
    /\ pl_pc = "generated"
    /\ dry_run
    /\ pl_pc' = "returned"
    /\ UNCHANGED <<dry_run, skip_upload, stored_episode, episode_data, video_path, video_id,
                   steps, failed, exit_status>>
    /\ UNCHANGED notPipeline

\* video_path = video_renderer.run(episode_data)
Render ==
    /\ pl_pc = "generated"
    /\ ~dry_run
    /\ steps' = Append(steps, "render")
    /\ video_path' = output_name(episode_data.episode)
    /\ pl_pc' = "rendered"
    /\ UNCHANGED <<dry_run, skip_upload, stored_episode, episode_data, video_id, failed,
                   exit_status>>
    /\ UNCHANGED notPipeline

\* (mutation of RenderFails: the exception is swallowed and the pipeline goes on)
RenderFailureIgnored ==
    /\ pl_pc = "generated"
    /\ ~dry_run
    /\ steps' = Append(steps, "render")
    /\ failed' = "render"
    /\ pl_pc' = "rendered"
    /\ UNCHANGED <<dry_run, skip_upload, stored_episode, episode_data, video_path, video_id,
                   exit_status>>
    /\ UNCHANGED notPipeline

\* video_renderer.run(episode_data) raises: sys.exit(2)
RenderFails ==
    /\ pl_pc = "generated"
    /\ ~dry_run
    /\ steps' = Append(steps, "render")
    /\ failed' = "render"
    /\ exit_status' = 2
    /\ pl_pc' = "exited"
    /\ UNCHANGED <<dry_run, skip_upload, stored_episode, episode_data, video_path, video_id>>
    /\ UNCHANGED notPipeline

\* if skip_upload: print(...)
SkipUpload ==
    /\ pl_pc = "rendered"
    /\ skip_upload
    /\ pl_pc' = "complete"
    /\ UNCHANGED <<dry_run, skip_upload, stored_episode, episode_data, video_path, video_id,
                   steps, failed, exit_status>>
    /\ UNCHANGED notPipeline

\* video_id = youtube_uploader.run(video_path, episode_data)
Upload(id) ==
    /\ pl_pc = "rendered"
    /\ ~skip_upload
    /\ steps' = Append(steps, "upload")
    /\ video_id' = id
    /\ pl_pc' = "complete"
    /\ UNCHANGED <<dry_run, skip_upload, stored_episode, episode_data, video_path, failed,
                   exit_status>>
    /\ UNCHANGED notPipeline

\* youtube_uploader.run(...) raises: sys.exit(3)
UploadFails ==
    /\ pl_pc = "rendered"
    /\ ~skip_upload
    /\ steps' = Append(steps, "upload")
    /\ failed' = "upload"
    /\ exit_status' = 3
    /\ pl_pc' = "exited"
    /\ UNCHANGED <<dry_run, skip_upload, stored_episode, episode_data, video_path, video_id>>
    /\ UNCHANGED notPipeline

\* print("Pipeline complete! ..."), and run_pipeline returns
Complete ==
    /\ pl_pc = "complete"
    /\ pl_pc' = "returned"
    /\ UNCHANGED <<dry_run, skip_upload, stored_episode, episode_data, video_path, video_id,
                   steps, failed, exit_status>>
    /\ UNCHANGED notPipeline


\* ------------------------------------------- upload_video: resumable upload
MAX_RETRIES == 5
RETRY_BACKOFF == 2

RECURSIVE Pow(_, _)
Pow(b, e) == IF e = 0 THEN 1 ELSE b * Pow(b, e - 1)

\* A response of next_chunk: None while chunks remain, then the parsed body
\* of the reply, which carries the video's id or, malformed, is empty.
ResponseNone == "None"
ResponseEmpty == "{}"
ResponseVideo == "{id}"

UploadInit ==
    /\ chunks \in 1..MaxChunks
    /\ sent = 0
    /\ up_pc = "loop"
    /\ retries = 0
    /\ response = ResponseNone
    /\ errors = 0
    /\ attempts = 0
    /\ waits = <<>>
    /\ up_video_id = NoVideoId

UploadIdle ==
    /\ chunks = 1
    /\ sent = 0
    /\ up_pc = "loop"
    /\ retries = 0
    /\ response = ResponseNone
    /\ errors = 0
    /\ attempts = 0
    /\ waits = <<>>
    /\ up_video_id = NoVideoId

\* (mutation of ChunkOk: a successful chunk resets the retry counter)
ChunkOkResetsRetries(final) ==
    /\ up_pc = "loop"
    /\ response = ResponseNone
    /\ attempts' = attempts + 1
    /\ sent' = sent + 1
    /\ response' = IF sent + 1 = chunks THEN final ELSE ResponseNone
    /\ retries' = 0
    /\ UNCHANGED <<chunks, up_pc, errors, waits, up_video_id>>
    /\ UNCHANGED notUpload

\* status, response = request.next_chunk() returns: one more chunk is sent; the
\* response stays None until the last chunk, whose reply is `final`.
ChunkOk(final) ==
    /\ up_pc = "loop"
    /\ response = ResponseNone
    /\ attempts' = attempts + 1
    /\ sent' = sent + 1
    /\ response' = IF sent + 1 = chunks THEN final ELSE ResponseNone
    /\ UNCHANGED <<chunks, up_pc, retries, errors, waits, up_video_id>>
    /\ UNCHANGED notUpload

\* request.next_chunk() raises: retries += 1; past MAX_RETRIES RuntimeError is
\* raised, else the loop sleeps RETRY_BACKOFF ** retries seconds and goes on.
ChunkError ==
    /\ up_pc = "loop"
    /\ response = ResponseNone
    /\ attempts' = attempts + 1
    /\ errors' = errors + 1
    /\ retries' = retries + 1
    /\ IF retries + 1 > MAX_RETRIES
       THEN /\ up_pc' = "RuntimeError"
            /\ UNCHANGED waits
       ELSE /\ waits' = Append(waits, Pow(RETRY_BACKOFF, retries + 1))
            /\ UNCHANGED up_pc
    /\ UNCHANGED <<chunks, sent, response, up_video_id>>
    /\ UNCHANGED notUpload

\* The loop ends with a response: video_id = response["id"]; return video_id.
\* An empty response has no "id": KeyError.
ReturnVideoId ==
    /\ up_pc = "loop"
    /\ response # ResponseNone
    /\ IF response = ResponseVideo
       THEN /\ up_video_id' = "id"
            /\ up_pc' = "returned"
       ELSE /\ UNCHANGED up_video_id
            /\ up_pc' = "KeyError"
    /\ UNCHANGED <<chunks, sent, retries, response, errors, attempts, waits>>
    /\ UNCHANGED notUpload

\* ---------------------------------------------------------- specifications
SceneNext == RenderFrame
InitScene ==
    /\ SceneInit
    /\ SparkleIdle /\ SeedIdle /\ WrapIdle /\ RenderIdle /\ ConcIdle /\ LayoutIdle
    /\ FrameIdle /\ PipelineIdle /\ UploadIdle
SpecScene == InitScene /\ [][SceneNext]_vars

SparkleNext == SparkleGetPos
InitSparkle ==
    /\ SparkleInit
    /\ SceneIdle /\ SeedIdle /\ WrapIdle /\ RenderIdle /\ ConcIdle /\ LayoutIdle
    /\ FrameIdle /\ PipelineIdle /\ UploadIdle
SpecSparkle == InitSparkle /\ [][SparkleNext]_vars

SeedNext ==
    \/ ConsumeRandom
    \/ \E ep \in Episodes : RenderStart(ep)
    \/ SeedRandom
    \/ BuildParticles
    \/ RenderReturn
InitSeed ==
    /\ SeedInit
    /\ SceneIdle /\ SparkleIdle /\ WrapIdle /\ RenderIdle /\ ConcIdle /\ LayoutIdle
    /\ FrameIdle /\ PipelineIdle /\ UploadIdle
SpecSeed == InitSeed /\ [][SeedNext]_vars

WrapNext == WrapWord \/ WrapReturn
InitWrap ==
    /\ WrapInit
    /\ SceneIdle /\ SparkleIdle /\ SeedIdle /\ RenderIdle /\ ConcIdle /\ LayoutIdle
    /\ FrameIdle /\ PipelineIdle /\ UploadIdle
SpecWrap == InitWrap /\ [][WrapNext]_vars

RenderNext ==
    \/ ClearScratch
    \/ ClearScratchFails
    \/ MakeScratch
    \/ MakeScratchFails
    \/ SeedAndBuild
    \/ CompositeFrame
    \/ SaveFrame
    \/ SaveFrameFails
    \/ \E status \in {0, 1} : RunEncoder(status)
    \/ CleanupAndReturn
    \/ CleanupFails
InitRender ==
    /\ RenderInit
    /\ SceneIdle /\ SparkleIdle /\ SeedIdle /\ WrapIdle /\ ConcIdle /\ LayoutIdle
    /\ FrameIdle /\ PipelineIdle /\ UploadIdle
SpecRender == InitRender /\ [][RenderNext]_vars


ConcNext ==
    \/ \E p \in Procs : ConcClear(p)
    \/ \E p \in Procs : ConcMkdir(p)
    \/ \E p \in Procs : ConcComposite(p)
    \/ \E p \in Procs : ConcSave(p)
    \/ \E p \in Procs : ConcEncode(p)
    \/ \E p \in Procs : ConcCleanup(p)
InitConc ==
    /\ ConcInit
    /\ SceneIdle /\ SparkleIdle /\ SeedIdle /\ WrapIdle /\ RenderIdle /\ LayoutIdle
    /\ FrameIdle /\ PipelineIdle /\ UploadIdle
SpecConc == InitConc /\ [][ConcNext]_vars

InitConfig ==
    /\ ConfigInit
    /\ SparkleIdle /\ SeedIdle /\ WrapIdle /\ RenderIdle /\ ConcIdle /\ LayoutIdle
    /\ FrameIdle /\ PipelineIdle /\ UploadIdle
SpecConfig == InitConfig /\ [][SceneNext]_vars


LayoutNext == PlaceCaption \/ DrawLine
InitLayout ==
    /\ LayoutInit
    /\ SceneIdle /\ SparkleIdle /\ SeedIdle /\ WrapIdle /\ RenderIdle /\ ConcIdle
    /\ FrameIdle /\ PipelineIdle /\ UploadIdle
SpecLayout == InitLayout /\ [][LayoutNext]_vars


FrameNext == FrameStep
InitFrame ==
    /\ FrameInit
    /\ SceneIdle /\ SparkleIdle /\ SeedIdle /\ WrapIdle /\ RenderIdle /\ ConcIdle
    /\ LayoutIdle /\ PipelineIdle /\ UploadIdle
SpecFrame == InitFrame /\ [][FrameNext]_vars


PipelineNext ==
    \/ Generate
    \/ GenerateFails
    \/ DryRunReturn
    \/ Render
    \/ RenderFails
    \/ SkipUpload
    \/ \E id \in {"id1", "id2"} : Upload(id)
    \/ UploadFails
    \/ Complete
InitPipeline ==
    /\ PipelineInit
    /\ SceneIdle /\ SparkleIdle /\ SeedIdle /\ WrapIdle /\ RenderIdle /\ ConcIdle
    /\ LayoutIdle /\ FrameIdle /\ UploadIdle
SpecPipeline == InitPipeline /\ [][PipelineNext]_vars


UploadNext ==
    \/ \E final \in {ResponseVideo, ResponseEmpty} : ChunkOk(final)
    \/ ChunkError
    \/ ReturnVideoId
InitUpload ==
    /\ UploadInit
    /\ SceneIdle /\ SparkleIdle /\ SeedIdle /\ WrapIdle /\ RenderIdle /\ ConcIdle
    /\ LayoutIdle /\ FrameIdle /\ PipelineIdle
SpecUpload == InitUpload /\ [][UploadNext]_vars

\* ------------------------------------------------- properties: scene timeline
LastFrame == rendered - 1
InUnitInterval(q) == 0 <= q[1] /\ q[1] <= q[2]

\* C1: for every configuration with 2*fade <= scene_duration and every frame
\* the loop renders, card_opacity and text_opacity lie in [0, 1].
C1_OpacityInUnitInterval ==
    rendered > 0 =>
        /\ InUnitInterval(scene.card_opacity)
        /\ InUnitInterval(scene.text_opacity)

\* C2: the scene index never decreases from one frame to the next, lies in
\* 0..FACTS_PER_VIDEO-1, and is FACTS_PER_VIDEO-1 for every frame at or past
\* the start of the last scene's window.
C2_IndexRange ==
    rendered > 0 =>
        /\ scene.scene_idx \in 0..(config.FACTS_PER_VIDEO - 1)
        /\ LastFrame >= (config.FACTS_PER_VIDEO - 1) * config.SCENE_DURATION_SECONDS * FPS
              => scene.scene_idx = config.FACTS_PER_VIDEO - 1
C2_IndexStep == scene'.scene_idx >= scene.scene_idx
C2_SceneIndexMonotoneSaturating == [](C2_IndexRange) /\ [][C2_IndexStep]_vars

\* A frame past the nominal end of the last of several scenes, clamped.
C2_Witness ==
    /\ rendered > 0
    /\ config.FACTS_PER_VIDEO >= 2
    /\ LastFrame > config.FACTS_PER_VIDEO * config.SCENE_DURATION_SECONDS * FPS
    /\ scene.scene_idx = config.FACTS_PER_VIDEO - 1

\* C3: card_opacity = text_opacity, and the value follows the three-window rule
\* on scene-local time: 1 - (1 - scene_t/F)^3, then 1.0, then
\* 1 - ((scene_t - F - hold)/F)^3; the first frame of scene k returns (k, 0, 0).
ThreeWindowRule(st, F, hold) ==
    IF st < F THEN Frac(Cube(F) - Cube(F - st), Cube(F))
    ELSE IF st < F + hold THEN <<1, 1>>
    ELSE Frac(Cube(F) - Cube(st - F - hold), Cube(F))

C3_ThreeWindowOpacity ==
    rendered > 0 =>
        LET S == config.SCENE_DURATION_SECONDS * FPS
            F == config.FADE_DURATION_SECONDS * FPS
            st == LastFrame - scene.scene_idx * S
        IN  /\ scene.card_opacity = scene.text_opacity
            /\ scene.card_opacity = ThreeWindowRule(st, F, S - 2 * F)
            /\ \A k \in 0..(config.FACTS_PER_VIDEO - 1) :
                  LastFrame = k * S =>
                      scene = [scene_idx |-> k, card_opacity |-> <<0, 1>>,
                               text_opacity |-> <<0, 1>>]

\* Frame 360 of the 12 s configuration: the first frame of the second scene.
C3_Witness ==
    /\ config.SCENE_DURATION_SECONDS = 12
    /\ config.FACTS_PER_VIDEO = 3
    /\ LastFrame = 360
    /\ scene = [scene_idx |-> 1, card_opacity |-> <<0, 1>>, text_opacity |-> <<0, 1>>]

\* C4: the number of frames the loop renders is fps * (scene_count *
\* scene_duration).
C4_FramesCoverScenes ==
    rendered = total_frames =>
        rendered = FPS * (config.FACTS_PER_VIDEO * config.SCENE_DURATION_SECONDS)

\* ------------------------------------------------------- properties: Sparkle
DrawnFrame == drawn - 1

\* C6: for every sparkle construction can produce and every frame, get_pos
\* returns 0 <= x < VIDEO_WIDTH and 0 <= y < VIDEO_HEIGHT, and the position is
\* the drifted one wrapped around (congruent to it modulo the frame size).
InFrame(q, size) == 0 <= q[1] /\ q[1] < size * q[2]
Congruent(q, num, size) == (q[1] * (PosDen \div q[2]) - num) % (size * PosDen) = 0

C7_InitialPositionKept ==
    drawn > 0 =>
        /\ (sparkle.drift_x = 0 \/ DrawnFrame = 0) => pos[1] = <<sparkle.x, 1>>
        /\ (sparkle.drift_y = 0 \/ DrawnFrame = 0) => pos[2] = <<sparkle.y, 1>>

\* ------------------------------------------------------- properties: seeding
\* C5: a render of an episode constructs the same sparkle and bean parameters
\* as an earlier render of the same episode, whatever state the generator was
\* in when either began.
C5_SameEpisodeSameParticles ==
    (seed_pc = "built" /\ ref # NoRef /\ ref.episode = episode) =>
        /\ sparkles = ref.sparkles
        /\ beans = ref.beans

\* A second render of an episode that began in another generator state than
\* the first.
C5_Witness ==
    /\ seed_pc = "built"
    /\ ref # NoRef
    /\ ref.episode = episode
    /\ ref.before # rng_before
    /\ Len(sparkles) = NUM_SPARKLES
    /\ Len(beans) = NUM_BEANS

\* ----------------------------------------------------- properties: wrap_text
SetOf(seq) == { seq[i] : i \in 1..Len(seq) }
HasSpace(line) == \E i \in 1..Len(line) : IsSpace(line[i])

\* C8: every returned line fits max_width unless it is a single word that is
\* itself wider; such a word is alone on its line, unmodified; no line is empty.
C8_LinesFitOrSingleWord ==
    wrap_pc = "done" =>
        \A i \in 1..Len(lines) :
            /\ lines[i] # <<>>
            /\ \/ text_width(lines[i]) <= max_width
               \/ /\ ~HasSpace(lines[i])
                  /\ lines[i] \in SetOf(words)

\* A wrap that returns a line of two words and a line that is one over-wide
\* word.
C8_Witness ==
    /\ wrap_pc = "done"
    /\ \E i \in 1..Len(lines) : HasSpace(lines[i])
    /\ \E i \in 1..Len(lines) : text_width(lines[i]) > max_width

\* C9: the returned lines joined by single spaces are the words of the text
\* joined by single spaces: no word dropped, duplicated, split or reordered.
RECURSIVE join(_)
join(seqs) ==
    IF seqs = <<>> THEN <<>>
    ELSE IF Len(seqs) = 1 THEN seqs[1]
    ELSE seqs[1] \o <<" ">> \o join(Tail(seqs))

C9_WrapRoundTrip ==
    wrap_pc = "done" =>
        /\ join(lines) = join(split(text))
        /\ split(join(lines)) = words

\* A text with repeated whitespace wrapped into several lines, the last one a
\* partial line.
C9_Witness ==
    /\ wrap_pc = "done"
    /\ Len(lines) >= 2
    /\ Len(words) > Len(lines)
    /\ join(lines) # text

\* -------------------------------------------------- properties: render_video
\* frame_<i zero-padded to 5 digits>.png, digit by digit.
Padded5(i) ==
    <<(i \div 10000) % 10, (i \div 1000) % 10, (i \div 100) % 10, (i \div 10) % 10, i % 10>>

\* C10: frames are composited and persisted in the order 0, 1, ...: while the
\* loop runs the scratch directory holds exactly the files of the frames before
\* f, under their zero-padded names, the frame being composited is f, and the
\* encoder ran only with all total_frames files, indices 0.. contiguous, present.
C10_FramesInOrderBeforeEncoder ==
    /\ render_pc = "frames" =>
          /\ f \in 0..total_frames
          /\ dir_files = { Padded5(i) : i \in 0..(f - 1) }
          /\ Cardinality(dir_files) = f
          /\ img # NoImg => img = f
    /\ encoder_runs > 0 =>
          /\ encoder_saw = { Padded5(i) : i \in 0..(total_frames - 1) }
          /\ Cardinality(encoder_saw) = total_frames

\* The encoder has run once, over all the frames of the render, and exited
\* with status 0.
C10_Witness ==
    /\ encoder_runs = 1
    /\ render_pc = "cleanup"
    /\ Cardinality(encoder_saw) = total_frames
    /\ Padded5(total_frames - 1) \in encoder_saw

\* episode_<episode zero-padded to 4 digits>.mp4, digit by digit.
Padded4(ep) ==
    IF ep < 10000
    THEN <<(ep \div 1000) % 10, (ep \div 100) % 10, (ep \div 10) % 10, ep % 10>>
    ELSE digits(ep)

\* C11: when render_video has returned, the scratch frame directory no longer
\* exists and the returned path is the output path of the episode, which the
\* encoder has written; and whatever the directory held at the start, it exists
\* and is empty when the particles are built and when frame 0 is composited.
C11_SuccessLeavesNoScratch ==
    /\ render_pc = "returned" =>
          /\ ~dir_exists
          /\ dir_files = {}
          /\ returned = Padded4(r_episode)
          /\ returned \in output_files
          /\ error = "none"
    /\ render_pc # "returned" => returned = NoPath
    /\ (render_pc = "seed" \/ (render_pc = "frames" /\ f = 0)) =>
          dir_exists /\ dir_files = {}

\* A render that began with leftover frames in the scratch directory returned.
C11_Witness ==
    /\ render_pc = "returned"
    /\ stale_start
    /\ encoder_runs = 1

\* C12: once the encoder has exited non-zero the render has raised, and stays
\* so: the encoder ran once, no path was returned, no output file is promised,
\* and the scratch directory is still there with every frame of the render.
C12_EncoderFailureRaises ==
    error = "encoder" =>
        /\ render_pc = "raised"
        /\ encoder_runs = 1
        /\ returned = NoPath
        /\ dir_exists
        /\ Cardinality(dir_files) = total_frames
        /\ dir_files = encoder_saw

\* The encoder ran over the frames of the render and exited non-zero.
C12_Witness ==
    /\ error = "encoder"
    /\ encoder_runs = 1
    /\ f = total_frames

\* C13: a failure of rmtree or mkdir on the scratch directory ends the render
\* before any particle is built, any frame is composited or written and the
\* encoder is invoked, with no video file created; a failed write of frame f
\* ends it with frame f the last one composited and the encoder never invoked.
C13_EarlyFailureStopsRender ==
    /\ error \in {"rmtree", "mkdir"} =>
          /\ render_pc = "raised"
          /\ ~built
          /\ composited = 0
          /\ f = 0
          /\ encoder_runs = 0
          /\ output_files = {}
          /\ returned = NoPath
    /\ error = "save" =>
          /\ render_pc = "raised"
          /\ composited = f + 1
          /\ f < total_frames
          /\ encoder_runs = 0
          /\ output_files = {}
          /\ returned = NoPath

\* The write of a frame after the first failed, frames before it being on disk.
C13_Witness ==
    /\ error = "save"
    /\ render_pc = "raised"
    /\ f > 0
    /\ dir_files # {}

\* ------------------------------------------ properties: concurrent renders
\* C14: while two render_video invocations run, neither deletes, overwrites
\* or feeds to its encoder a frame file written by the other, running, one.
C14_ScratchExclusivelyOwned == harm = {}

\* ------------------------------------------------ properties: configuration
\* C15: with a fade too long for the scene (2 * fade > scene duration, a
\* negative hold) the configuration is rejected and no frame is rendered.
C15_NegativeHoldRejected ==
    2 * config.FADE_DURATION_SECONDS > config.SCENE_DURATION_SECONDS => rendered = 0

\* ------------------------------------------- properties: caption placement
\* C16: a caption of n >= 2 lines is placed inside the card, its last line
\* ending at or above the bottom margin card_y + card_h - 80, and centred in
\* the height below the header: the gap above the block and the gap below it
\* differ by at most the pixel lost in the halving.
C16_CaptionInsideCard ==
    (lay_pc = "draw" /\ n_lines >= 2) =>
        LET bottom == card_y + card_h - 80
            above == text_start_y - fact_y
            below == bottom - (text_start_y + n_lines * line_height)
        IN  /\ text_start_y + n_lines * line_height <= bottom
            /\ below - above \in {0, 1}
            /\ ly # NoY => ly + line_height <= bottom

\* ------------------------------------------- properties: background cache
\* C17: once a frame is rendered the background has been built exactly once and
\* the cache is the fill with the beans and nothing else; the particle lists
\* are as render_video built them; and the image of the frame rendered last is
\* the one a first call of render_frame, without a cache, returns for its index.
C17_BackgroundBuiltOnce ==
    /\ fr_f = 0 => bg_builds = 0 /\ bg_cache = NoBg
    /\ fr_f > 0 =>
          /\ bg_builds = 1
          /\ bg_cache = Background(beans_of(fr_episode))
          /\ Len(bg_cache) = 1 + NUM_BEANS
          /\ fr_sparkles = sparkles_of(fr_episode)
          /\ fr_beans = beans_of(fr_episode)
          /\ Len(fr_img) = 1 + NUM_BEANS + NUM_SPARKLES + 2
          /\ fr_img = Background(beans_of(fr_episode))
                          \o Overlay(fr_f - 1, sparkles_of(fr_episode))

\* The last frame of a render was composited over the cache built for frame 0.
C17_Witness ==
    /\ fr_f = total_frames
    /\ bg_builds = 1
    /\ bg_cache # NoBg

\* -------------------------------------------------- properties: run_pipeline
IsPrefix(a, b) == Len(a) <= Len(b) /\ \A i \in 1..Len(a) : a[i] = b[i]

Called(step) == \E i \in 1..Len(steps) : steps[i] = step

\* C18: the steps are called in the order generate, render, upload, each at most
\* once; an upload is attempted only with the path a render returned and with
\* neither dry_run nor skip_upload set; a failed step ends the pipeline with
\* status 1 (generate), 2 (render, no upload attempted) or 3 (upload), and
\* nothing is called after it; dry_run calls neither render nor upload.
C18_StepsInOrderFailureStops ==
    /\ IsPrefix(steps, <<"generate", "render", "upload">>)
    /\ Called("upload") =>
          /\ video_path = Padded4(episode_data.episode)
          /\ failed \in {"none", "upload"}
          /\ ~dry_run
          /\ ~skip_upload
    /\ dry_run => ~Called("render") /\ ~Called("upload")
    /\ skip_upload => ~Called("upload")
    /\ failed = "generate" => exit_status = 1 /\ steps = <<"generate">>
    /\ failed = "render" => exit_status = 2 /\ steps = <<"generate", "render">>
    /\ failed = "upload" => exit_status = 3 /\ steps = <<"generate", "render", "upload">>
    /\ (failed # "none") = (pl_pc = "exited")
    /\ (failed = "none") = (exit_status = NoStatus)

\* The render failed in a pipeline that would have uploaded.
C18_Witness ==
    /\ failed = "render"
    /\ pl_pc = "exited"
    /\ ~skip_upload

\* ------------------------------------------------ properties: upload_video
\* C19: the retry counter counts every chunk error of the upload, successes
\* between them not resetting it; the waits slept are 2, 4, 8, 16, 32 seconds
\* for errors 1 to 5, each leaving the loop running for another attempt; the
\* sixth error raises RuntimeError, after which no attempt is made; and an id
\* is returned only once next_chunk has given a response that carries one.
C19_AtMostFiveChunkErrors ==
    /\ retries = errors
    /\ errors <= 6
    /\ attempts = sent + errors
    /\ IsPrefix(waits, <<2, 4, 8, 16, 32>>)
    /\ Len(waits) = IF errors <= 5 THEN errors ELSE 5
    /\ (errors = 6) = (up_pc = "RuntimeError")
    /\ (errors <= 5 /\ response = ResponseNone) => up_pc = "loop"
    /\ up_pc = "returned" => response = ResponseVideo /\ sent = chunks
    /\ (up_video_id # NoVideoId) = (up_pc = "returned")

\* Five chunk errors, with chunks uploaded between them, and the id returned.
C19_Witness ==
    /\ up_pc = "returned"
    /\ errors = 5
    /\ chunks >= 2
    /\ waits = <<2, 4, 8, 16, 32>>

====
